---- MODULE Spec2Model ----
(***************************************************************************)
(* A model of note/note.py: the AbstractNote enumeration with its modular  *)
(* arithmetic, the free parsing / translation / validation functions, and  *)
(* the Note object with its set_note method and note_octave property.      *)
(*                                                                         *)
(* Python values are tagged records, so that a value of any type can be    *)
(* handed to any function, as in the source:                               *)
(*   a str is [kind |-> "str", chars |-> <<"C", "b">>] (one-character      *)
(*   strings in a sequence), an int is [kind |-> "int", val |-> 4], a list *)
(*   is [kind |-> "list"], None is [kind |-> "None"], a member of the      *)
(*   AbstractNote enumeration is [kind |-> "AbstractNote", value |-> 0..11]*)
(* The outcome of a call is [exc |-> "none", val |-> v] when it returns v  *)
(* and [exc |-> "ValueError"] or [exc |-> "TypeError"] when it raises.     *)
(***************************************************************************)
EXTENDS Integers, Sequences, FiniteSets, TLC

VARIABLES
    this_note,   \* the Note object under test, or NoObject before construction
    other_note,  \* a second Note, the right-hand side of ==
    last_call,   \* the last call made on this_note and how it ended
    call,        \* the pending or last call of a free function / operator
    ret          \* its outcome, Pending before it has run

vars == <<this_note, other_note, last_call, call, ret>>

----------------------------------------------------------------------------
(* Python values and call outcomes                                         *)

PyStr(s) == [kind |-> "str", chars |-> s]
PyInt(n) == [kind |-> "int", val |-> n]
PyBool(b) == [kind |-> "bool", truth |-> b]
\* A float, written as the number of halves it holds: PyFloat(11) is 5.5.
PyFloat(h) == [kind |-> "float", halves |-> h]
PyList == [kind |-> "list"]
PyNone == [kind |-> "None"]
PyTuple(a, b) == [kind |-> "tuple", first |-> a, second |-> b]

Return(v) == [exc |-> "none", val |-> v]
Raise(e) == [exc |-> e]

\* The values Python orders and compares as numbers: int, bool (True is 1,
\* False is 0) and float.
IsNumber(x) == x.kind \in {"int", "bool", "float"}

\* Twice the number a value stands for, so that halves stay whole.
Halves(x) ==
    IF x.kind = "int" THEN 2 * x.val
    ELSE IF x.kind = "bool" THEN (IF x.truth THEN 2 ELSE 0)
    ELSE x.halves

\* a <= b for two numbers.
py_le(a, b) == Halves(a) <= Halves(b)

\* a == b: numbers by the number they stand for (True == 1, 5.0 == 5),
\* everything else by type and content.
py_eq(a, b) ==
    IF IsNumber(a) /\ IsNumber(b) THEN Halves(a) = Halves(b) ELSE a = b

----------------------------------------------------------------------------
(* Characters and str.lower()                                              *)

UpperCase == <<"A", "B", "C", "D", "E", "F", "G", "H", "I", "J", "K", "L", "M",
               "N", "O", "P", "Q", "R", "S", "T", "U", "V", "W", "X", "Y", "Z">>
LowerCase == <<"a", "b", "c", "d", "e", "f", "g", "h", "i", "j", "k", "l", "m",
               "n", "o", "p", "q", "r", "s", "t", "u", "v", "w", "x", "y", "z">>

\* The line feed character.
LF == "\n"

\* str.lower() on one character: an upper-case letter maps to its lower-case
\* letter and everything else (lower-case letters, "#", " ", LF) to itself.
lower_char(c) ==
    IF \E i \in 1..Len(UpperCase) : UpperCase[i] = c
    THEN LowerCase[CHOOSE i \in 1..Len(UpperCase) : UpperCase[i] = c]
    ELSE c

\* str.upper() on one character (used to build mixed-case inputs).
upper_char(c) ==
    IF \E i \in 1..Len(LowerCase) : LowerCase[i] = c
    THEN UpperCase[CHOOSE i \in 1..Len(LowerCase) : LowerCase[i] = c]
    ELSE c

\* str.lower() on a sequence of characters.
lower(s) == [i \in 1..Len(s) |-> lower_char(s[i])]

\* x.lower() on any value: a str returns its lower-cased copy, any other
\* type has no .lower attribute and raises AttributeError.
py_lower(x) ==
    IF x.kind = "str" THEN Return(PyStr(lower(x.chars)))
    ELSE Raise("AttributeError")

----------------------------------------------------------------------------
(* Module constants                                                        *)

natural == <<"n", "a", "t", "u", "r", "a", "l">>
sharp == <<"s", "h", "a", "r", "p">>
flat == <<"f", "l", "a", "t">>
hash == <<"#">>
small_b == <<"b">>

DEFAULT_NOTE_SHIFT_VALUE == PyStr(natural)
DEFAULT_NOTE_OCTAVE_VALUE == 4
OCTAVE_LOWER_BOUND == 0
OCTAVE_UPPER_BOUND == 10

----------------------------------------------------------------------------
(* class AbstractNote(Enum)                                                *)

\* The member names in value order: AbstractNoteNames[v + 1] has value v.
AbstractNoteNames ==
    <<"bsharp_cnatural", "csharp_dflat", "dnatural", "dsharp_eflat",
      "enatural_fflat", "esharp_fnatural", "fsharp_gflat", "gnatural",
      "gsharp_aflat", "anatural", "asharp_bflat", "bnatural_cflat">>

\* len(AbstractNote)
AbstractNoteLen == Len(AbstractNoteNames)

Member(v) == [kind |-> "AbstractNote", value |-> v]

AbstractNoteMembers == {Member(v) : v \in 0..(AbstractNoteLen - 1)}

\* AbstractNote(v): the member with value v, ValueError when there is none.
AbstractNote(v) ==
    IF v \in 0..(AbstractNoteLen - 1) THEN Return(Member(v))
    ELSE Raise("ValueError")

\* A remainder that truncates toward zero, as C's % does.
TruncRem(a, b) == IF a >= 0 THEN a % b ELSE -((-a) % b)

\* Python's a % b for b > 0: the result has the sign of b (floored division).
PyMod(a, b) == a % b

\* AbstractNote.__add__(self, other)
AbstractNote__add__(self, other) ==
    AbstractNote(PyMod(self.value + other, AbstractNoteLen))

\* A subtraction with its operands the wrong way round.
AbstractNote__sub__reflected(self, other) ==
    AbstractNote(PyMod(other - self.value, AbstractNoteLen))

\* AbstractNote.__sub__(self, other)
AbstractNote__sub__(self, other) ==
    AbstractNote(PyMod(self.value - other, AbstractNoteLen))

----------------------------------------------------------------------------
(* convert_note_to_abstract                                                *)

\* A translation dictionary that knows one spelling per pitch class and lacks
\* the rarer B sharp, C flat, E sharp and F flat.
note_translation_dict_common_spellings ==
    (<<<<"c">>, natural>> :> 0)  @@
    (<<<<"c">>, sharp>>   :> 1)  @@ (<<<<"d">>, flat>>    :> 1)  @@
    (<<<<"d">>, natural>> :> 2)  @@
    (<<<<"d">>, sharp>>   :> 3)  @@ (<<<<"e">>, flat>>    :> 3)  @@
    (<<<<"e">>, natural>> :> 4)  @@
    (<<<<"f">>, natural>> :> 5)  @@
    (<<<<"f">>, sharp>>   :> 6)  @@ (<<<<"g">>, flat>>    :> 6)  @@
    (<<<<"g">>, natural>> :> 7)  @@
    (<<<<"g">>, sharp>>   :> 8)  @@ (<<<<"a">>, flat>>    :> 8)  @@
    (<<<<"a">>, natural>> :> 9)  @@
    (<<<<"a">>, sharp>>   :> 10) @@ (<<<<"b">>, flat>>    :> 10) @@
    (<<<<"b">>, natural>> :> 11)

\* note_translation_dict: (letter, shift) |-> value of the AbstractNote member
note_translation_dict ==
    (<<<<"b">>, sharp>>   :> 0)  @@ (<<<<"c">>, natural>> :> 0)  @@
    (<<<<"c">>, sharp>>   :> 1)  @@ (<<<<"d">>, flat>>    :> 1)  @@
    (<<<<"d">>, natural>> :> 2)  @@
    (<<<<"d">>, sharp>>   :> 3)  @@ (<<<<"e">>, flat>>    :> 3)  @@
    (<<<<"e">>, natural>> :> 4)  @@ (<<<<"f">>, flat>>    :> 4)  @@
    (<<<<"e">>, sharp>>   :> 5)  @@ (<<<<"f">>, natural>> :> 5)  @@
    (<<<<"f">>, sharp>>   :> 6)  @@ (<<<<"g">>, flat>>    :> 6)  @@
    (<<<<"g">>, natural>> :> 7)  @@
    (<<<<"g">>, sharp>>   :> 8)  @@ (<<<<"a">>, flat>>    :> 8)  @@
    (<<<<"a">>, natural>> :> 9)  @@
    (<<<<"a">>, sharp>>   :> 10) @@ (<<<<"b">>, flat>>    :> 10) @@
    (<<<<"b">>, natural>> :> 11) @@ (<<<<"c">>, flat>>    :> 11)

\* convert_note_to_abstract lower-casing the letter but not the shift.
convert_note_to_abstract_shift_as_written(note_letter, note_shift) ==
    LET l == py_lower(note_letter)
    IN  IF l.exc # "none" \/ note_shift.kind # "str" THEN Raise("TypeError")
        ELSE LET key == <<l.val.chars, note_shift.chars>>
             IN  IF key \in DOMAIN note_translation_dict
                 THEN Return(Member(note_translation_dict[key]))
                 ELSE Raise("ValueError")

\* convert_note_to_abstract(note_letter, note_shift): the dictionary entry of
\* the lower-cased pair; TypeError when either argument has no .lower()
\* (AttributeError), ValueError when the pair is no key (KeyError).
convert_note_to_abstract(note_letter, note_shift) ==
    LET l == py_lower(note_letter)
        s == py_lower(note_shift)
    IN  IF l.exc # "none" \/ s.exc # "none" THEN Raise("TypeError")
        ELSE LET key == <<l.val.chars, s.val.chars>>
             IN  IF key \in DOMAIN note_translation_dict
                 THEN Return(Member(note_translation_dict[key]))
                 ELSE Raise("ValueError")

\* convert_note_to_abstract(note_letter): the shift takes its default.
convert_note_to_abstract_default(note_letter) ==
    convert_note_to_abstract(note_letter, DEFAULT_NOTE_SHIFT_VALUE)

----------------------------------------------------------------------------
(* is_note_octave_valid                                                    *)

\* The range test with the upper bound left out of the range.
is_note_octave_valid_exclusive(input_note_octave) ==
    IF IsNumber(input_note_octave)
    THEN Return(PyBool(
             /\ py_le(PyInt(OCTAVE_LOWER_BOUND), input_note_octave)
             /\ py_le(input_note_octave, PyInt(OCTAVE_UPPER_BOUND))
             /\ ~py_eq(input_note_octave, PyInt(OCTAVE_UPPER_BOUND))))
    ELSE Raise("TypeError")

\* OCTAVE_LOWER_BOUND <= x <= OCTAVE_UPPER_BOUND: an int, a bool or a float
\* compares, a str, a list or None raises TypeError, which the function
\* raises again as TypeError.
is_note_octave_valid(input_note_octave) ==
    IF IsNumber(input_note_octave)
    THEN Return(PyBool(
             /\ py_le(PyInt(OCTAVE_LOWER_BOUND), input_note_octave)
             /\ py_le(input_note_octave, PyInt(OCTAVE_UPPER_BOUND))))
    ELSE Raise("TypeError")

----------------------------------------------------------------------------
(* parse_note_shift and parse_note_string                                  *)

\* note_shift_translation_dict
note_shift_translation_dict ==
    (natural :> natural) @@ (sharp :> sharp) @@ (hash :> sharp) @@
    (flat :> flat) @@ (small_b :> flat)

\* parse_note_shift looking the shift up as written, without lower-casing.
parse_note_shift_case_sensitive(note_shift) ==
    IF note_shift.kind # "str" THEN Raise("TypeError")
    ELSE IF note_shift.chars \in DOMAIN note_shift_translation_dict
         THEN Return(PyStr(note_shift_translation_dict[note_shift.chars]))
         ELSE Raise("ValueError")

\* parse_note_shift(note_shift): the dictionary entry of the lower-cased
\* shift; TypeError without .lower(), ValueError when it is no key.
parse_note_shift(note_shift) ==
    LET lowered == py_lower(note_shift)
    IN  IF lowered.exc # "none" THEN Raise("TypeError")
        ELSE IF lowered.val.chars \in DOMAIN note_shift_translation_dict
             THEN Return(PyStr(note_shift_translation_dict[lowered.val.chars]))
             ELSE Raise("ValueError")

\* The pattern ^([A-G])[ ]?(natural|sharp|#|flat|b)?$ under re.IGNORECASE.

\* [A-G], case ignored.
LetterClassMatches(c) ==
    lower_char(c) \in {lower_char(x) : x \in {"A", "B", "C", "D", "E", "F", "G"}}

\* The alternatives of the second group, in the order the pattern tries them.
ShiftAlternatives == <<natural, sharp, hash, flat, small_b>>

\* A literal matches at position i, case ignored.
LiteralMatches(s, i, literal) ==
    /\ i + Len(literal) - 1 <= Len(s)
    /\ \A k \in 1..Len(literal) :
           lower_char(s[i + k - 1]) = lower_char(literal[k])

\* $ without re.MULTILINE: at the end of the string, or just before a line
\* feed that is the last character of the string.
EndMatches(s, i) ==
    \/ i = Len(s) + 1
    \/ i = Len(s) /\ s[i] = LF

\* The ways through the two optional parts, in the order backtracking tries
\* them: the space taken before the space skipped (greedy ?), and within each
\* the alternatives in order before the group skipped (greedy ?).
\* Path p takes the space iff p <= Len(ShiftAlternatives) + 1.
PathCount == 2 * (Len(ShiftAlternatives) + 1)

PathTakesSpace(p) == p <= Len(ShiftAlternatives) + 1

PathAlternative(p) == ((p - 1) % (Len(ShiftAlternatives) + 1)) + 1

PathMatches(s, p) ==
    LET from == IF PathTakesSpace(p) THEN 3 ELSE 2
        a == PathAlternative(p)
    IN  /\ PathTakesSpace(p) => (Len(s) >= 2 /\ s[2] = " ")
        /\ IF a <= Len(ShiftAlternatives)
           THEN /\ LiteralMatches(s, from, ShiftAlternatives[a])
                /\ EndMatches(s, from + Len(ShiftAlternatives[a]))
           ELSE EndMatches(s, from)

\* re.match(pattern, note_string, re.IGNORECASE): TypeError when note_string
\* is no str; None when nothing matches; else the two groups, the second one
\* None when the group took no part in the match.
re_match(note_string) ==
    IF note_string.kind # "str" THEN Raise("TypeError")
    ELSE LET s == note_string.chars
             found == {p \in 1..PathCount : PathMatches(s, p)}
         IN  IF Len(s) = 0 \/ ~LetterClassMatches(s[1]) \/ found = {}
             THEN Return(PyNone)
             ELSE LET p == CHOOSE q \in found : \A r \in found : q <= r
                      from == IF PathTakesSpace(p) THEN 3 ELSE 2
                      a == PathAlternative(p)
                  IN  Return(PyTuple(
                          PyStr(<<s[1]>>),
                          IF a <= Len(ShiftAlternatives)
                          THEN PyStr(SubSeq(s, from,
                                   from + Len(ShiftAlternatives[a]) - 1))
                          ELSE PyNone))

\* parse_note_string(note_string)
parse_note_string(note_string) ==
    LET result == re_match(note_string)
    IN  IF result.exc # "none" THEN result
        ELSE IF result.val = PyNone THEN Raise("ValueError")
        ELSE LET note_letter == result.val.first
                 note_shift ==
                     IF result.val.second = PyNone
                     THEN Return(DEFAULT_NOTE_SHIFT_VALUE)
                     ELSE parse_note_shift(result.val.second)
             IN  IF note_shift.exc # "none" THEN note_shift
                 ELSE LET l == py_lower(note_letter)
                          sh == py_lower(note_shift.val)
                      IN  IF l.exc # "none" \/ sh.exc # "none"
                          THEN Raise("TypeError")
                          ELSE Return(PyTuple(l.val, sh.val))

----------------------------------------------------------------------------
(* class Note                                                              *)

\* An attribute that has not been assigned yet.
Unset == [kind |-> "unset"]

\* A keyword argument the caller left out.
Omitted == [kind |-> "omitted"]

\* No Note object exists (before construction, or construction raised).
NoObject == [kind |-> "no object"]

\* The object __init__ receives: no attribute assigned.
BlankNote ==
    [kind |-> "Note", note_letter |-> Unset, note_shift |-> Unset,
     note_octave |-> Unset, note |-> Unset]

\* The value a parameter takes: the argument, or its default when left out.
Param(argument, default) == IF argument = Omitted THEN default ELSE argument

\* The note_octave setter, storing whatever it is handed, checked or not.
note_octave_setter_unchecked(self, input_note_octave) ==
    [exc |-> "none", self |-> [self EXCEPT !.note_octave = input_note_octave]]

\* A note_octave setter that stores the value first and checks it after.
note_octave_setter_store_first(self, input_note_octave) ==
    LET valid == is_note_octave_valid(input_note_octave)
        stored == [self EXCEPT !.note_octave = input_note_octave]
    IN  IF valid.exc # "none" THEN [exc |-> valid.exc, self |-> stored]
        ELSE IF valid.val.truth THEN [exc |-> "none", self |-> stored]
        ELSE [exc |-> "ValueError", self |-> stored]

\* A note_octave setter that also puts the shift back to its default.
note_octave_setter_resets_shift(self, input_note_octave) ==
    LET valid == is_note_octave_valid(input_note_octave)
    IN  IF valid.exc # "none" THEN [exc |-> valid.exc, self |-> self]
        ELSE IF valid.val.truth
             THEN [exc |-> "none",
                   self |-> [self EXCEPT
                                !.note_octave = input_note_octave,
                                !.note_shift = DEFAULT_NOTE_SHIFT_VALUE]]
             ELSE [exc |-> "ValueError", self |-> self]

\* The note_octave setter: the outcome and the object as the call leaves it.
note_octave_setter(self, input_note_octave) ==
    LET valid == is_note_octave_valid(input_note_octave)
    IN  IF valid.exc # "none" THEN [exc |-> valid.exc, self |-> self]
        ELSE IF valid.val.truth
             THEN [exc |-> "none",
                   self |-> [self EXCEPT !.note_octave = input_note_octave]]
             ELSE [exc |-> "ValueError", self |-> self]

\* A set_note that derives the pitch class only when the object has none yet.
set_note_stale_pitch(self, note_letter, note_shift, note_octave) ==
    LET shift == Param(note_shift, DEFAULT_NOTE_SHIFT_VALUE)
        octave == Param(note_octave, PyInt(DEFAULT_NOTE_OCTAVE_VALUE))
        stored == [self EXCEPT !.note_letter = note_letter,
                               !.note_shift = shift]
        assigned == note_octave_setter(stored, octave)
        converted == convert_note_to_abstract(note_letter, shift)
    IN  IF assigned.exc # "none" THEN assigned
        ELSE IF converted.exc # "none"
             THEN [exc |-> converted.exc, self |-> assigned.self]
        ELSE IF self.note # Unset THEN assigned
        ELSE [exc |-> "none",
              self |-> [assigned.self EXCEPT !.note = converted.val]]

\* Note.set_note: the four statements in order; the first one that raises
\* ends the call and leaves the assignments made before it in place.
set_note(self, note_letter, note_shift, note_octave) ==
    LET shift == Param(note_shift, DEFAULT_NOTE_SHIFT_VALUE)
        octave == Param(note_octave, PyInt(DEFAULT_NOTE_OCTAVE_VALUE))
        \* self._note_letter = note_letter; self._note_shift = note_shift
        stored == [self EXCEPT !.note_letter = note_letter,
                               !.note_shift = shift]
        \* self.note_octave = note_octave
        assigned == note_octave_setter(stored, octave)
        \* self._note = convert_note_to_abstract(note_letter, note_shift)
        converted == convert_note_to_abstract(note_letter, shift)
    IN  IF assigned.exc # "none" THEN assigned
        ELSE IF converted.exc # "none"
             THEN [exc |-> converted.exc, self |-> assigned.self]
        ELSE [exc |-> "none",
              self |-> [assigned.self EXCEPT !.note = converted.val]]

\* A Note.__init__ that reports every failure of set_note as ValueError.
Note__init__value_error(note_letter, note_shift, note_octave) ==
    LET done == set_note(BlankNote, note_letter, note_shift, note_octave)
    IN  IF done.exc = "none" THEN done
        ELSE [exc |-> "ValueError", self |-> NoObject]

\* Note.__init__: set_note on the new object; when it raises, the caller
\* receives no object.
Note__init__(note_letter, note_shift, note_octave) ==
    LET done == set_note(BlankNote, note_letter, note_shift, note_octave)
    IN  IF done.exc = "none" THEN done
        ELSE [exc |-> done.exc, self |-> NoObject]

\* An equality that also compares the stored spelling.
Note__eq__spelling(self, other) ==
    PyBool(/\ self.note = other.note
           /\ py_eq(self.note_octave, other.note_octave)
           /\ self.note_letter = other.note_letter
           /\ self.note_shift = other.note_shift)

\* Note.__eq__(self, other)
Note__eq__(self, other) ==
    PyBool(/\ self.note = other.note
           /\ py_eq(self.note_octave, other.note_octave))

\* Note.__str__(self): "{} {}".format(self.note.name, str(self.note_octave)),
\* kept as the name and the octave the text is made of.
Note__str__(self) ==
    [kind |-> "str", name |-> AbstractNoteNames[self.note.value + 1],
     octave |-> self.note_octave]

----------------------------------------------------------------------------
(* is_note_letter_valid, is_note_shift_valid and is_note_valid             *)

\* valid_note_letters: chr(letter) for ord("a") .. ord("g").
valid_note_letters == <<"a", "b", "c", "d", "e", "f", "g">>

\* valid_note_shifts
valid_note_shifts == <<flat, natural, sharp, hash, small_b>>

\* is_note_letter_valid: input_note_letter.lower() in valid_note_letters; a
\* value without .lower raises TypeError.
is_note_letter_valid(input_note_letter) ==
    LET lowered == py_lower(input_note_letter)
    IN  IF lowered.exc # "none" THEN Raise("TypeError")
        ELSE Return(PyBool(\E i \in 1..Len(valid_note_letters) :
                               lowered.val.chars = <<valid_note_letters[i]>>))

\* is_note_shift_valid: input_note_shift.lower() in valid_note_shifts; a
\* value without .lower raises TypeError.
is_note_shift_valid(input_note_shift) ==
    LET lowered == py_lower(input_note_shift)
    IN  IF lowered.exc # "none" THEN Raise("TypeError")
        ELSE Return(PyBool(\E i \in 1..Len(valid_note_shifts) :
                               lowered.val.chars = valid_note_shifts[i]))

\* An object that is not a Note, with the attributes it was given; Unset
\* marks an attribute it does not have. The fields note_letter and
\* note_shift stand for _note_letter and _note_shift.
Object(letter, shift, octave) ==
    [kind |-> "object", note_letter |-> letter, note_shift |-> shift,
     note_octave |-> octave]

\* object.name: the attribute, or AttributeError when the object has none
\* of that name.
getattr(object, name) ==
    IF name \notin DOMAIN object THEN Raise("AttributeError")
    ELSE IF object[name] = Unset THEN Raise("AttributeError")
    ELSE Return(object[name])

\* is_note_valid: the three checks joined by `and`, left to right, each
\* attribute read just before its check; a false check ends the chain, an
\* AttributeError gives False, any other exception leaves the function.
is_note_valid(input_note) ==
    LET letter == getattr(input_note, "note_letter")
        letter_valid == is_note_letter_valid(letter.val)
        shift == getattr(input_note, "note_shift")
        shift_valid == is_note_shift_valid(shift.val)
        octave == getattr(input_note, "note_octave")
        octave_valid == is_note_octave_valid(octave.val)
    IN  IF letter.exc # "none" THEN Return(PyBool(FALSE))
        ELSE IF letter_valid.exc # "none" THEN letter_valid
        ELSE IF ~letter_valid.val.truth THEN Return(PyBool(FALSE))
        ELSE IF shift.exc # "none" THEN Return(PyBool(FALSE))
        ELSE IF shift_valid.exc # "none" THEN shift_valid
        ELSE IF ~shift_valid.val.truth THEN Return(PyBool(FALSE))
        ELSE IF octave.exc # "none" THEN Return(PyBool(FALSE))
        ELSE octave_valid

----------------------------------------------------------------------------
(* is_abstract_note_valid                                                  *)

\* What `x in AbstractNote` does with an x that is not a member depends on
\* the interpreter's enum module: up to Python 3.7 it is False, from 3.8 to
\* 3.11 it raises TypeError, from 3.12 on it is True when x is the value of
\* a member. Each is named by the last or first release that behaves so.
PythonReleases == {"3.7", "3.11", "3.12"}

\* x in AbstractNote under the given release.
EnumContains(x, python) ==
    IF x \in AbstractNoteMembers THEN Return(PyBool(TRUE))
    ELSE IF python = "3.7" THEN Return(PyBool(FALSE))
    ELSE IF python = "3.11" THEN Raise("TypeError")
    ELSE Return(PyBool(/\ IsNumber(x)
                       /\ \E v \in 0..(AbstractNoteLen - 1) :
                              py_eq(x, PyInt(v))))

\* is_abstract_note_valid: input_abstract_note in AbstractNote.
is_abstract_note_valid(input_abstract_note, python) ==
    EnumContains(input_abstract_note, python)

----------------------------------------------------------------------------
(* The Note objects and the calls made on them                             *)

\* The arguments one Note object is driven with.
LetterInputs ==
    {PyStr(<<"a">>), PyStr(<<"G">>), PyStr(<<"H">>), PyInt(42)}

ShiftInputs ==
    {Omitted, PyStr(flat), PyStr(<<"S", "h", "a", "r", "p">>),
     PyStr(<<"t", "e", "s", "t">>)}

OctaveInputs ==
    {Omitted, PyInt(-1), PyInt(0), PyInt(10), PyInt(11), PyStr(<<"5">>),
     PyList, PyBool(TRUE), PyFloat(11)}

\* The octaves assigned on their own (the property takes no default).
OctaveAssignInputs ==
    {PyInt(-1), PyInt(0), PyInt(5), PyInt(10), PyInt(11), PyInt(299),
     PyStr(<<"5">>), PyStr(<<"A">>), PyList, PyBool(TRUE), PyBool(FALSE),
     PyFloat(11), PyFloat(21)}

\* The arguments two Note objects are driven with when they are compared.
PairLetterInputs == {PyStr(<<"a">>), PyStr(<<"G">>), PyStr(<<"H">>)}
PairShiftInputs == {PyStr(flat), PyStr(<<"S", "h", "a", "r", "p">>)}
PairOctaveInputs == {Omitted, PyInt(1), PyInt(11), PyBool(TRUE)}

Idle == [fn |-> "none"]
Pending == [exc |-> "pending"]

\* The object a name is bound to.
NoteOf(which) == IF which = "this" THEN this_note ELSE other_note

\* Bind a name to the object a call leaves behind.
Bind(which, object) ==
    IF which = "this"
    THEN this_note' = object /\ UNCHANGED other_note
    ELSE other_note' = object /\ UNCHANGED this_note

Logged(op, which, exc, arg, value) ==
    [op |-> op, target |-> which, exc |-> exc, arg |-> arg, ret |-> value]

\* The arguments of Note(...) and set_note(...), as the caller wrote them.
Args(letter, shift, octave) ==
    [kind |-> "args", letter |-> letter, shift |-> shift, octave |-> octave]

Init ==
    /\ this_note = NoObject
    /\ other_note = NoObject
    /\ last_call = Logged("none", "none", "none", PyNone, PyNone)
    /\ call = Idle
    /\ ret = Pending

\* which = Note(letter, shift, octave)
Construct(which, letter, shift, octave) ==
    /\ NoteOf(which) = NoObject
    /\ LET done == Note__init__(letter, shift, octave)
       IN  /\ Bind(which, done.self)
           /\ last_call' = Logged("__init__", which, done.exc,
                                  Args(letter, shift, octave), PyNone)
    /\ UNCHANGED <<call, ret>>

\* which.set_note(letter, shift, octave)
SetNote(which, letter, shift, octave) ==
    /\ NoteOf(which) # NoObject
    /\ LET done == set_note(NoteOf(which), letter, shift, octave)
       IN  /\ Bind(which, done.self)
           /\ last_call' = Logged("set_note", which, done.exc,
                                  Args(letter, shift, octave), PyNone)
    /\ UNCHANGED <<call, ret>>

\* which.note_octave = value
SetOctave(which, value) ==
    /\ NoteOf(which) # NoObject
    /\ LET done == note_octave_setter(NoteOf(which), value)
       IN  /\ Bind(which, done.self)
           /\ last_call' = Logged("note_octave", which, done.exc, value,
                                  PyNone)
    /\ UNCHANGED <<call, ret>>

\* this_note == other_note
Compare ==
    /\ this_note # NoObject
    /\ other_note # NoObject
    /\ last_call' = Logged("__eq__", "this", "none", PyNone,
                           Note__eq__(this_note, other_note))
    /\ UNCHANGED <<this_note, other_note, call, ret>>

\* One Note object: constructed, then updated any number of times.
Next ==
    \/ \E l \in LetterInputs, s \in ShiftInputs, o \in OctaveInputs :
           Construct("this", l, s, o)
    \/ \E l \in LetterInputs, s \in ShiftInputs, o \in OctaveInputs :
           SetNote("this", l, s, o)
    \/ \E v \in OctaveAssignInputs : SetOctave("this", v)

Spec == Init /\ [][Next]_vars

\* Two Note objects, each constructed and updated, and compared.
NextPair ==
    \/ \E w \in {"this", "other"}, l \in PairLetterInputs,
          s \in PairShiftInputs, o \in PairOctaveInputs :
           Construct(w, l, s, o)
    \/ \E w \in {"this", "other"}, l \in PairLetterInputs,
          s \in PairShiftInputs, o \in PairOctaveInputs :
           SetNote(w, l, s, o)
    \/ Compare

SpecPair == Init /\ [][NextPair]_vars

\* The largest octave handed to a Note when every octave around the allowed
\* range is tried; the smallest is its negative.
MaxOctaveInput == 12

\* The arguments one Note object is driven with when the octave is varied.
RangeLetterInputs == {PyStr(<<"a">>), PyStr(<<"H">>)}
RangeShiftInputs == {Omitted, PyStr(flat)}
RangeOctaveInputs ==
    {PyInt(n) : n \in (-MaxOctaveInput)..MaxOctaveInput}
        \cup {PyInt(100), PyInt(299), PyStr(<<"5">>), PyStr(<<"A">>), PyList,
              PyBool(TRUE), PyFloat(11), PyFloat(21)}

\* One Note object, constructed and updated with every octave in and around
\* the allowed range.
NextOctave ==
    \/ \E l \in RangeLetterInputs, s \in RangeShiftInputs,
          o \in RangeOctaveInputs \cup {Omitted} :
           Construct("this", l, s, o)
    \/ \E l \in RangeLetterInputs, s \in RangeShiftInputs,
          o \in RangeOctaveInputs \cup {Omitted} :
           SetNote("this", l, s, o)
    \/ \E v \in RangeOctaveInputs : SetOctave("this", v)

SpecOctave == Init /\ [][NextOctave]_vars

----------------------------------------------------------------------------
(* The free functions and operators, each applied to one drawn input       *)

\* The largest |n| in p + n and p - n.
MaxModifier == 300
\* The most spaces between the letter and the shift of a drawn note string.
MaxSpaces == 2
\* The most characters that trail a drawn note string.
MaxTrail == 2

\* Every way of writing a word in upper and lower case.
CaseVariants(word) ==
    {[i \in 1..Len(word) |-> IF m[i] THEN upper_char(word[i]) ELSE word[i]] :
        m \in [1..Len(word) -> BOOLEAN]}

LetterChars ==
    {"a", "b", "c", "d", "e", "f", "g", "A", "B", "C", "D", "E", "F", "G"}

ShiftTokenVariants ==
    UNION {CaseVariants(ShiftAlternatives[a]) : a \in 1..Len(ShiftAlternatives)}

Spaces(k) == [i \in 1..k |-> " "]

RECURSIVE SeqsUpTo(_, _)
SeqsUpTo(alphabet, n) ==
    IF n = 0 THEN {<<>>}
    ELSE LET shorter == SeqsUpTo(alphabet, n - 1)
         IN  shorter \cup {Append(t, c) : t \in shorter, c \in alphabet}

\* A letter, at most one space, at most one shift token in any case.
PlainNoteStrings ==
    {<<c>> \o Spaces(k) \o t :
        c \in LetterChars, k \in 0..1, t \in ShiftTokenVariants \cup {<<>>}}

\* Strings with something before the letter, a wrong or missing letter,
\* several spaces, a wrong token, or something trailing.
OddNoteStrings ==
    {before \o letter \o Spaces(k) \o token \o trail :
        before \in {<<>>, <<"#">>},
        letter \in {<<>>, <<"A">>, <<"b">>, <<"H">>, <<"z">>},
        k \in 0..MaxSpaces,
        token \in {<<>>, natural, hash, small_b, <<"B">>,
                   <<"S", "h", "a", "r", "p">>, <<"n", "a", "t">>, <<"a">>},
        trail \in SeqsUpTo({" ", LF, "x"}, MaxTrail)}

NoteStringInputs ==
    {PyStr(t) : t \in PlainNoteStrings \cup OddNoteStrings} \cup {PyInt(42)}

ConvertLetterInputs ==
    {PyStr(<<c>>) : c \in LetterChars}
        \cup {PyStr(<<"H">>), PyStr(<<>>), PyStr(<<"a", "b">>), PyInt(42)}

ConvertShiftInputs ==
    {PyStr(t) : t \in CaseVariants(natural) \cup CaseVariants(sharp)
                          \cup CaseVariants(flat)}
        \cup {Omitted, PyStr(hash), PyStr(small_b), PyStr(<<>>),
              PyStr(<<"t", "e", "s", "t">>), PyInt(42)}

ArithmeticCalls ==
    {[fn |-> f, self |-> p, other |-> n, sum_of |-> PyNone] :
        f \in {"__add__", "__sub__"}, p \in AbstractNoteMembers,
        n \in (-MaxModifier)..MaxModifier}

ParseCalls ==
    {[fn |-> "parse_note_string", note_string |-> t] : t \in NoteStringInputs}

ConvertCalls ==
    {[fn |-> "convert_note_to_abstract", note_letter |-> l, note_shift |-> sh,
      parsed_from |-> PyNone] :
        l \in ConvertLetterInputs, sh \in ConvertShiftInputs}

\* The attributes of the objects handed to is_note_valid; Unset is an
\* attribute the object lacks.
ObjectLetterInputs ==
    {Unset, PyStr(<<"a">>), PyStr(<<"G">>), PyStr(<<"H">>), PyStr(<<"Q">>),
     PyStr(<<"a", "b">>), PyInt(42)}

ObjectShiftInputs ==
    {Unset, PyStr(natural), PyStr(hash), PyStr(<<"B">>),
     PyStr(<<"t", "e", "s", "t">>), PyInt(42)}

ObjectOctaveInputs ==
    {Unset, PyInt(-1), PyInt(0), PyInt(4), PyInt(10), PyInt(11),
     PyStr(<<"5">>), PyList, PyBool(TRUE), PyFloat(11), PyFloat(21)}

\* Notes as Note(...) makes them, and as a set_note call leaves them,
\* whether it raised or not.
FreshNotes ==
    {Note__init__(l, s, o).self :
        l \in LetterInputs, s \in ShiftInputs, o \in OctaveInputs}
            \ {NoObject}

UpdatedNotes ==
    {set_note(n, l, s, o).self :
        n \in FreshNotes, l \in LetterInputs, s \in ShiftInputs,
        o \in OctaveInputs}

NoteValidInputs ==
    {Object(l, s, o) : l \in ObjectLetterInputs, s \in ObjectShiftInputs,
                       o \in ObjectOctaveInputs}
        \cup UpdatedNotes
        \cup {PyInt(1), PyStr(<<"t", "e", "s", "t">>), PyNone}

NoteValidCalls ==
    {[fn |-> "is_note_valid", input_note |-> n] : n \in NoteValidInputs}

\* BASIC_CHECK_NUMBERS and BASIC_CHECK_STRINGS of the tests.
BASIC_CHECK_NUMBERS == {PyInt(-1), PyInt(0), PyInt(1), PyInt(100)}

BASIC_CHECK_STRINGS ==
    {PyStr(<<"t", "e", "s", "t">>),
     PyStr(<<"A", "B", "C", "D", "E", "F", "G">>),
     PyStr(<<".", "?", "!">>), PyStr(<<" ">>), PyStr(<<>>)}

\* The members, the values the tests call invalid, the largest member value,
\* the first number past it, and None.
AbstractNoteValidInputs ==
    AbstractNoteMembers \cup BASIC_CHECK_NUMBERS \cup BASIC_CHECK_STRINGS
        \cup {PyInt(AbstractNoteLen - 1), PyInt(AbstractNoteLen), PyNone}

\* The release is not the caller's choice: every one of them is tried.
AbstractNoteValidCalls ==
    {[fn |-> "is_abstract_note_valid", input_abstract_note |-> x,
      python |-> release] :
        x \in AbstractNoteValidInputs, release \in PythonReleases}

\* The octaves Note(...) is called with next to every letter and shift.
NoteOctaveInputs == {Omitted, PyInt(0), PyInt(10), PyInt(11), PyBool(TRUE)}

NoteCalls ==
    {[fn |-> "Note", note_letter |-> l, note_shift |-> sh, note_octave |-> o] :
        l \in ConvertLetterInputs, sh \in ConvertShiftInputs,
        o \in NoteOctaveInputs}

InitFn ==
    /\ this_note = NoObject
    /\ other_note = NoObject
    /\ last_call = Logged("none", "none", "none", PyNone, PyNone)
    /\ call \in ArithmeticCalls \cup ParseCalls \cup ConvertCalls
                 \cup NoteValidCalls \cup AbstractNoteValidCalls
                 \cup NoteCalls
    /\ ret = Pending

\* self + other
Add ==
    /\ call.fn = "__add__"
    /\ ret = Pending
    /\ ret' = AbstractNote__add__(call.self, call.other)
    /\ UNCHANGED <<this_note, other_note, last_call, call>>

\* self - other
Sub ==
    /\ call.fn = "__sub__"
    /\ ret = Pending
    /\ ret' = AbstractNote__sub__(call.self, call.other)
    /\ UNCHANGED <<this_note, other_note, last_call, call>>

\* (self + other) - other: the sum just computed becomes the left operand
\* of a subtraction of the same number; sum_of keeps the member added to.
SubtractBack ==
    /\ call.fn = "__add__"
    /\ ret # Pending
    /\ ret.exc = "none"
    /\ call' = [fn |-> "__sub__", self |-> ret.val, other |-> call.other,
                sum_of |-> call.self]
    /\ ret' = Pending
    /\ UNCHANGED <<this_note, other_note, last_call>>

\* parse_note_string(note_string)
Parse ==
    /\ call.fn = "parse_note_string"
    /\ ret = Pending
    /\ ret' = parse_note_string(call.note_string)
    /\ UNCHANGED <<this_note, other_note, last_call, call>>

\* convert_note_to_abstract(note_letter, note_shift), or with the shift left
\* out convert_note_to_abstract(note_letter)
Convert ==
    /\ call.fn = "convert_note_to_abstract"
    /\ ret = Pending
    /\ ret' = IF call.note_shift = Omitted
              THEN convert_note_to_abstract_default(call.note_letter)
              ELSE convert_note_to_abstract(call.note_letter, call.note_shift)
    /\ UNCHANGED <<this_note, other_note, last_call, call>>

\* convert_note_to_abstract(*parse_note_string(note_string)): the pair the
\* parser returned is unpacked into the arguments of the next call.
Unpack ==
    /\ call.fn = "parse_note_string"
    /\ ret # Pending
    /\ ret.exc = "none"
    /\ call' = [fn |-> "convert_note_to_abstract",
                note_letter |-> ret.val.first, note_shift |-> ret.val.second,
                parsed_from |-> call.note_string]
    /\ ret' = Pending
    /\ UNCHANGED <<this_note, other_note, last_call>>

\* is_note_valid(input_note)
NoteValid ==
    /\ call.fn = "is_note_valid"
    /\ ret = Pending
    /\ ret' = is_note_valid(call.input_note)
    /\ UNCHANGED <<this_note, other_note, last_call, call>>

\* is_abstract_note_valid(input_abstract_note)
AbstractNoteValid ==
    /\ call.fn = "is_abstract_note_valid"
    /\ ret = Pending
    /\ ret' = is_abstract_note_valid(call.input_abstract_note, call.python)
    /\ UNCHANGED <<this_note, other_note, last_call, call>>

\* Note(note_letter, note_shift, note_octave): the new object, or the
\* exception __init__ let through.
NewNote ==
    /\ call.fn = "Note"
    /\ ret = Pending
    /\ LET done == Note__init__(call.note_letter, call.note_shift,
                                call.note_octave)
       IN  ret' = IF done.exc = "none" THEN Return(done.self)
                  ELSE Raise(done.exc)
    /\ UNCHANGED <<this_note, other_note, last_call, call>>

NextFn ==
    \/ Add \/ Sub \/ SubtractBack \/ Parse \/ Convert \/ Unpack
    \/ NoteValid \/ AbstractNoteValid \/ NewNote

SpecFn == InitFn /\ [][NextFn]_vars

----------------------------------------------------------------------------
(* Properties of the Note object                                           *)

\* The built-in int() on a value of the model: an int is itself, a str of
\* decimal digits is the number it spells; nothing else here casts.
DecimalDigits == <<"0", "1", "2", "3", "4", "5", "6", "7", "8", "9">>

IsDigit(c) == \E d \in 1..Len(DecimalDigits) : DecimalDigits[d] = c

DigitValue(c) == (CHOOSE d \in 1..Len(DecimalDigits) : DecimalDigits[d] = c) - 1

RECURSIVE DigitsValue(_)
DigitsValue(chars) ==
    IF chars = <<>> THEN 0
    ELSE DigitsValue(SubSeq(chars, 1, Len(chars) - 1)) * Len(DecimalDigits)
         + DigitValue(chars[Len(chars)])

IntCastable(x) ==
    \/ IsNumber(x)
    \/ /\ x.kind = "str"
       /\ x.chars # <<>>
       /\ \A i \in 1..Len(x.chars) : IsDigit(x.chars[i])

IntCast(x) ==
    IF x.kind = "str" THEN DigitsValue(x.chars)
    ELSE IF Halves(x) >= 0 THEN Halves(x) \div 2
    ELSE -((-Halves(x)) \div 2)

\* C1: a set_note call that raises leaves the Note's stored letter, stored
\* shift, octave and pitch class exactly as they were before the call.
C1_SetNoteAtomicOnFailure ==
    [][(last_call'.op = "set_note" /\ last_call'.exc # "none")
           => this_note' = this_note]_vars

\* C2: whenever a Note exists, its pitch class is the translation of its
\* stored letter and stored shift.
C2_PitchClassConsistent ==
    this_note # NoObject =>
        convert_note_to_abstract(this_note.note_letter, this_note.note_shift)
            = Return(this_note.note)

\* C3: whenever a Note exists, its octave is a number with 0 <= octave <= 10,
\* whatever calls succeeded or failed on it.
C3_OctaveInBounds ==
    this_note # NoObject =>
        /\ IsNumber(this_note.note_octave)
        /\ 0 <= Halves(this_note.note_octave)
        /\ Halves(this_note.note_octave) <= 2 * 10

\* C3 witness: an out-of-range octave assignment was refused on a Note whose
\* octave sits on the upper boundary.
C3_Witness ==
    /\ this_note # NoObject
    /\ last_call.op = "note_octave"
    /\ last_call.arg = PyInt(11)
    /\ last_call.exc = "ValueError"
    /\ this_note.note_octave = PyInt(10)

\* C9: a == b holds exactly when the pitch classes are equal and the octaves
\* are equal; the stored spelling plays no part.
C9_EqualityIsPitchAndOctave ==
    last_call.op = "__eq__" =>
        (last_call.ret.truth <=>
            /\ this_note.note.value = other_note.note.value
            /\ Halves(this_note.note_octave) = Halves(other_note.note_octave))

\* C9 witness: two Notes spelled differently (A flat, G sharp) at the same
\* octave compared equal.
C9_Witness ==
    /\ last_call.op = "__eq__"
    /\ last_call.ret.truth
    /\ lower(this_note.note_letter.chars) = <<"a">>
    /\ lower(other_note.note_letter.chars) = <<"g">>
    /\ this_note.note = Member(8)
    /\ this_note.note_octave = other_note.note_octave

\* C10: assigning to the octave an integer-castable value whose integer value
\* lies in [0, 10] succeeds, and the octave read back is the cast integer.
C10_OctaveCastOnAssignment ==
    (/\ last_call.op = "note_octave"
     /\ IntCastable(last_call.arg)
     /\ IntCast(last_call.arg) \in 0..10)
        => /\ last_call.exc = "none"
           /\ py_eq(this_note.note_octave, PyInt(IntCast(last_call.arg)))

----------------------------------------------------------------------------
(* Properties of the free functions and operators                          *)

Done(fn) == call.fn = fn /\ ret # Pending

\* The sum or difference the call asks for, as an integer.
Transposed ==
    IF call.fn = "__add__" THEN call.self.value + call.other
    ELSE call.self.value - call.other

\* C4: p + n and p - n never fail and yield the member whose value is the one
\* number in 0..11 congruent to p.value + n (p.value - n) modulo 12; so value
\* 9 + 299 is value 8 and value 9 + (-2) is value 7.
C4_ModularTransposition ==
    (Done("__add__") \/ Done("__sub__")) =>
        /\ ret.exc = "none"
        /\ ret.val \in AbstractNoteMembers
        /\ ret.val.value \in 0..11
        /\ \E k \in -(MaxModifier + 12)..(MaxModifier + 12) :
               Transposed = ret.val.value + 12 * k
        /\ (Done("__add__") /\ call.self.value = 9 /\ call.other = 299)
               => ret.val.value = 8
        /\ (Done("__add__") /\ call.self.value = 9 /\ call.other = -2)
               => ret.val.value = 7

\* C4 witness: the member with value 9 plus 299 has been computed.
C4_Witness ==
    /\ Done("__add__")
    /\ call.self = Member(9)
    /\ call.other = 299
    /\ ret = Return(Member(8))

\* The translation table as the specification writes it: entry v + 1 holds the
\* spellings of the pitch class with value v.
SpellingsByValue ==
    <<{<<"b", sharp>>, <<"c", natural>>}, {<<"c", sharp>>, <<"d", flat>>},
      {<<"d", natural>>}, {<<"d", sharp>>, <<"e", flat>>},
      {<<"e", natural>>, <<"f", flat>>}, {<<"e", sharp>>, <<"f", natural>>},
      {<<"f", sharp>>, <<"g", flat>>}, {<<"g", natural>>},
      {<<"g", sharp>>, <<"a", flat>>}, {<<"a", natural>>},
      {<<"a", sharp>>, <<"b", flat>>}, {<<"b", natural>>, <<"c", flat>>}>>

\* The letter and the shift of the call in lower case, the shift "natural"
\* when it was left out; only for str arguments.
CalledSpelling ==
    <<lower_char(call.note_letter.chars[1]),
      IF call.note_shift = Omitted THEN natural
      ELSE lower(call.note_shift.chars)>>

CalledWithStrings ==
    /\ call.note_letter.kind = "str"
    /\ Len(call.note_letter.chars) = 1
    /\ call.note_shift = Omitted \/ call.note_shift.kind = "str"

\* C5: for every letter and shift that, lower-cased, is a spelling of the
\* table, convert_note_to_abstract returns the pitch class the table gives
\* for it; with the shift left out it returns what "natural" gives.
C5_TranslationTable ==
    (Done("convert_note_to_abstract") /\ CalledWithStrings) =>
        \A v \in 0..11 :
            CalledSpelling \in SpellingsByValue[v + 1] => ret = Return(Member(v))

\* C5 witness: "B" with "SHARP" was translated to the pitch class of value 0,
\* the one "c" natural has.
C5_Witness ==
    /\ Done("convert_note_to_abstract")
    /\ call.note_letter = PyStr(<<"B">>)
    /\ call.note_shift = PyStr(<<"S", "H", "A", "R", "P">>)
    /\ ret = Return(Member(0))

\* The grammar of note strings: one letter A-G in either case, at most one
\* space, at most one of the tokens natural, sharp, #, flat, b in any case.
AfterLetter(s) ==
    IF Len(s) >= 2 /\ s[2] = " " THEN SubSeq(s, 3, Len(s))
    ELSE SubSeq(s, 2, Len(s))

SpellsToken(t, token) ==
    /\ Len(t) = Len(token)
    /\ \A i \in 1..Len(token) : t[i] = token[i] \/ t[i] = upper_char(token[i])

InGrammar(s) ==
    /\ Len(s) >= 1
    /\ s[1] \in LetterChars
    /\ \/ AfterLetter(s) = <<>>
       \/ \E token \in {natural, sharp, hash, flat, small_b} :
              SpellsToken(AfterLetter(s), token)

\* The canonical shift of a string of the grammar.
CanonicalShift(s) ==
    LET t == AfterLetter(s)
    IN  IF SpellsToken(t, sharp) \/ SpellsToken(t, hash) THEN sharp
        ELSE IF SpellsToken(t, flat) \/ SpellsToken(t, small_b) THEN flat
        ELSE natural

ParsedString == call.note_string.kind = "str"

\* C6: every string of the grammar is parsed to its letter in lower case and
\* its canonical shift.
C6_ParseAccepts ==
    (Done("parse_note_string") /\ ParsedString
        /\ InGrammar(call.note_string.chars)) =>
        ret = Return(PyTuple(
                  PyStr(<<lower_char(call.note_string.chars[1])>>),
                  PyStr(CanonicalShift(call.note_string.chars))))

\* C6 witness: "CB", with an upper-case B as the flat marker, was parsed to
\* ("c", "flat").
C6_Witness ==
    /\ Done("parse_note_string")
    /\ call.note_string = PyStr(<<"C", "B">>)
    /\ ret = Return(PyTuple(PyStr(<<"c">>), PyStr(flat)))

\* C7: every string outside the grammar makes parse_note_string raise
\* ValueError.
C7_ParseRejects ==
    (Done("parse_note_string") /\ ParsedString
        /\ ~InGrammar(call.note_string.chars)) =>
        ret = Raise("ValueError")

\* C8: the pair parse_note_string returns, unpacked into
\* convert_note_to_abstract, always translates to one of the 12 pitch classes.
C8_ParsedPairTranslates ==
    (Done("convert_note_to_abstract") /\ call.parsed_from # PyNone) =>
        /\ ret.exc = "none"
        /\ ret.val \in AbstractNoteMembers

\* C8 witness: the pair parsed from "E #" was translated (to the pitch class
\* of value 5).
C8_Witness ==
    /\ Done("convert_note_to_abstract")
    /\ call.parsed_from = PyStr(<<"E", " ", "#">>)
    /\ ret = Return(Member(5))

----------------------------------------------------------------------------
(* Properties of the octave on assignment and construction                 *)

\* C11: assigning to the octave a string that is not a well-formed numeral
\* (such as "A") raises ValueError, and assigning a value with no numeric
\* cast at all (such as a list) raises TypeError.
C11_OctaveAssignErrorKinds ==
    last_call.op = "note_octave" =>
        /\ (last_call.arg.kind = "str" /\ ~IntCastable(last_call.arg))
               => last_call.exc = "ValueError"
        /\ last_call.arg.kind = "list" => last_call.exc = "TypeError"

\* The letter and shift of the logged call have a pitch class.
ArgsTranslate ==
    convert_note_to_abstract(
        last_call.arg.letter,
        Param(last_call.arg.shift, DEFAULT_NOTE_SHIFT_VALUE)).exc = "none"

\* C12: Note(letter, shift, octave) and the assignment n.note_octave = octave
\* accept every integer octave from 0 to 10, both ends included, and the
\* octave is then the one given; every integer octave below 0 or above 10 is
\* refused with ValueError (no Note is made; the octave assigned to stays).
C12_OctaveBoundary ==
    /\ (last_call.op = "__init__" /\ last_call.arg.octave.kind = "int") =>
           IF last_call.arg.octave.val \in 0..10
           THEN ArgsTranslate =>
                    /\ last_call.exc = "none"
                    /\ this_note.note_octave = last_call.arg.octave
           ELSE /\ last_call.exc = "ValueError"
                /\ this_note = NoObject
    /\ (last_call.op = "note_octave" /\ last_call.arg.kind = "int") =>
           IF last_call.arg.val \in 0..10
           THEN /\ last_call.exc = "none"
                /\ this_note.note_octave = last_call.arg
           ELSE /\ last_call.exc = "ValueError"
                /\ this_note.note_octave # last_call.arg

\* An A flat whose octave was set to 10, the upper end of the range.
C12_Witness ==
    /\ last_call.op = "note_octave"
    /\ last_call.arg = PyInt(10)
    /\ last_call.exc = "none"
    /\ this_note.note_octave = PyInt(10)
    /\ this_note.note = Member(8)

----------------------------------------------------------------------------
(* Properties of set_note as an update                                     *)

\* What Note(letter, shift, octave) gives for the arguments of the logged
\* call.
FreshFromArgs ==
    Note__init__(last_call.arg.letter, last_call.arg.shift,
                 last_call.arg.octave)

\* C13: whenever Note(letter, shift, octave) succeeds, n.set_note(letter,
\* shift, octave) succeeds on any Note n and leaves n equal to that fresh
\* Note, whatever n held before the call.
C13_SetNoteHistoryIndependent ==
    (last_call.op = "set_note" /\ FreshFromArgs.exc = "none") =>
        /\ last_call.exc = "none"
        /\ Note__eq__(this_note, FreshFromArgs.self).truth

\* A Note, whatever it was, after set_note("G", "Sharp", 10).
C13_Witness ==
    /\ last_call.op = "set_note"
    /\ last_call.arg = Args(PyStr(<<"G">>), PyStr(<<"S", "h", "a", "r", "p">>),
                            PyInt(10))
    /\ last_call.exc = "none"
    /\ this_note.note = Member(8)
    /\ this_note.note_octave = PyInt(10)

----------------------------------------------------------------------------
(* Properties of the validators                                            *)

\* The attribute is there and the check made on it returns True.
Satisfies(got, checked) ==
    /\ got.exc = "none"
    /\ checked.exc = "none"
    /\ checked.val.truth

\* The object handed to is_note_valid lacks one of the three attributes.
LacksAttribute ==
    \E name \in {"note_letter", "note_shift", "note_octave"} :
        getattr(call.input_note, name).exc = "AttributeError"

\* C14: is_note_valid(obj) returns True exactly when the stored letter,
\* the stored shift and the octave of obj each pass their own check, and for
\* an object that lacks one of the three attributes it returns False and
\* does not raise.
C14_NoteValidity ==
    Done("is_note_valid") =>
        LET letter == getattr(call.input_note, "note_letter")
            shift == getattr(call.input_note, "note_shift")
            octave == getattr(call.input_note, "note_octave")
        IN  /\ ret = Return(PyBool(TRUE)) <=>
                   /\ Satisfies(letter, is_note_letter_valid(letter.val))
                   /\ Satisfies(shift, is_note_shift_valid(shift.val))
                   /\ Satisfies(octave, is_note_octave_valid(octave.val))
            /\ LacksAttribute => ret = Return(PyBool(FALSE))

\* C15: is_abstract_note_valid(x) returns True exactly when x is one of the
\* twelve members and returns False, raising nothing, for every other value:
\* the numbers -1, 0, 1 and 100 and any string among them.
C15_AbstractNoteValidity ==
    Done("is_abstract_note_valid") =>
        ret = Return(PyBool(call.input_abstract_note \in AbstractNoteMembers))

----------------------------------------------------------------------------
(* Properties of Note(...) when it fails                                   *)

\* The arguments of the Note(...) call, the shift and octave with their
\* defaults when left out.
NoteShiftArg == Param(call.note_shift, DEFAULT_NOTE_SHIFT_VALUE)

NoteOctaveArg == Param(call.note_octave, PyInt(DEFAULT_NOTE_OCTAVE_VALUE))

\* The lower-cased letter and shift are a spelling of the table.
NoteArgsSpelled ==
    /\ Len(call.note_letter.chars) = 1
    /\ \E v \in 1..Len(SpellingsByValue) :
           <<lower_char(call.note_letter.chars[1]), lower(NoteShiftArg.chars)>>
               \in SpellingsByValue[v]

\* C16: with an octave in range, Note(letter, shift, octave) raises
\* ValueError when letter and shift are strings whose lower-cased pair is no
\* spelling of the translation table (letter "H" or "", shift "test"), and
\* raises TypeError when the letter or the shift is no string (an integer);
\* either way no Note comes back.
C16_ConstructionErrors ==
    (Done("Note") /\ IsNumber(NoteOctaveArg)
        /\ Halves(NoteOctaveArg) \in
               (2 * OCTAVE_LOWER_BOUND)..(2 * OCTAVE_UPPER_BOUND)) =>
        IF call.note_letter.kind = "str" /\ NoteShiftArg.kind = "str"
        THEN ~NoteArgsSpelled => ret = Raise("ValueError")
        ELSE ret = Raise("TypeError")

\* Note("H") raised ValueError.
C16_Witness ==
    /\ Done("Note")
    /\ call.note_letter = PyStr(<<"H">>)
    /\ call.note_shift = Omitted
    /\ call.note_octave = Omitted
    /\ ret = Raise("ValueError")

----------------------------------------------------------------------------
(* Properties of transposition there and back                              *)

\* C17: for every pitch class p and every integer n, p + 0 is p, p + 12 is
\* p, and (p + n) - n is p.
C17_TranspositionIdentities ==
    /\ (Done("__add__") /\ call.other \in {0, AbstractNoteLen})
           => ret = Return(call.self)
    /\ (Done("__sub__") /\ call.sum_of # PyNone)
           => ret = Return(call.sum_of)

\* (p + 299) - 299 for the p of value 9: the sum has value 8, and taking 299
\* away again gave p.
C17_Witness ==
    /\ Done("__sub__")
    /\ call.sum_of = Member(9)
    /\ call.self = Member(8)
    /\ call.other = 299
    /\ ret = Return(Member(9))

----------------------------------------------------------------------------
(* Properties of updates that fail or touch the octave alone               *)

\* The logged set_note call was given an octave in range and a letter and
\* shift that have no pitch class, and so raised.
FailedOnPitchAlone ==
    /\ last_call.op = "set_note"
    /\ last_call.exc # "none"
    /\ ~ArgsTranslate
    /\ LET octave == Param(last_call.arg.octave,
                           PyInt(DEFAULT_NOTE_OCTAVE_VALUE))
       IN  /\ IsNumber(octave)
           /\ Halves(octave) \in
                  (2 * OCTAVE_LOWER_BOUND)..(2 * OCTAVE_UPPER_BOUND)

\* C18: when set_note is called on a Note with an octave in range that
\* differs from the Note's own and with a letter and shift that have no pitch
\* class, the call fails and the Note's octave, pitch class, str() and
\* equality with any other Note are what they were before the call.
C18_FailedUpdateUnobservable ==
    [][(/\ FailedOnPitchAlone'
        /\ ~py_eq(Param(last_call'.arg.octave,
                        PyInt(DEFAULT_NOTE_OCTAVE_VALUE)),
                  this_note.note_octave))
           => /\ this_note'.note_octave = this_note.note_octave
              /\ this_note'.note = this_note.note
              /\ Note__str__(this_note') = Note__str__(this_note)
              /\ \A other \in FreshNotes :
                     Note__eq__(this_note', other) = Note__eq__(this_note, other)
      ]_vars

\* C19: an assignment to the octave that fails, the value being outside
\* [0, 10] or of a type that does not compare with numbers, leaves the
\* Note's octave, pitch class, stored letter and stored shift as they were.
C19_FailedOctaveAssignmentChangesNothing ==
    [][(last_call'.op = "note_octave" /\ last_call'.exc # "none")
           => /\ this_note'.note_octave = this_note.note_octave
              /\ this_note'.note = this_note.note
              /\ this_note'.note_letter = this_note.note_letter
              /\ this_note'.note_shift = this_note.note_shift]_vars

\* A G sharp at octave 10 after the assignment of 11 to its octave raised
\* ValueError.
C19_Witness ==
    /\ last_call.op = "note_octave"
    /\ last_call.arg = PyInt(11)
    /\ last_call.exc = "ValueError"
    /\ this_note.note_octave = PyInt(10)
    /\ this_note.note = Member(8)
    /\ this_note.note_letter = PyStr(<<"G">>)

\* C20: an assignment to the octave of any number v from 0 to 10 succeeds,
\* the octave then reads back as v, and the Note's pitch class, stored
\* letter and stored shift are what they were before.
C20_OctaveAssignmentChangesOnlyOctave ==
    [][(/\ last_call'.op = "note_octave"
        /\ IsNumber(last_call'.arg)
        /\ Halves(last_call'.arg) \in 0..(2 * 10))
           => /\ last_call'.exc = "none"
              /\ this_note'.note_octave = last_call'.arg
              /\ this_note'.note = this_note.note
              /\ this_note'.note_letter = this_note.note_letter
              /\ this_note'.note_shift = this_note.note_shift]_vars

\* An A flat, still an A flat, after its octave was set to 0.
C20_Witness ==
    /\ last_call.op = "note_octave"
    /\ last_call.arg = PyInt(0)
    /\ last_call.exc = "none"
    /\ this_note.note_octave = PyInt(0)
    /\ this_note.note = Member(8)
    /\ this_note.note_letter = PyStr(<<"a">>)
    /\ this_note.note_shift = PyStr(flat)

====
